---------------------------- MODULE Spec2Model ----------------------------
(***************************************************************************)
(* A model of kconfigtest.py, the differential test harness of Kconfiglib. *)
(*                                                                         *)
(*   - the snapshot comparator equal_confs() and the two snapshot files    *)
(*     ".config" (reference tool) and "._config" (harness);                *)
(*   - the orchestrator run_tests() with its five tests, the architecture  *)
(*     and defconfig enumeration, the ledger _all_ok and the counter       *)
(*     nconfigs;                                                           *)
(*   - the two fixed-point loops test_all_no() and test_all_yes() driving  *)
(*     the resolution engine (kconfiglib, which is not part of the harness *)
(*     source and is modelled from its contract).                          *)
(***************************************************************************)
EXTENDS Integers, Sequences, FiniteSets, TLC

VARIABLES
    pc,          \* control point of the component under analysis
    dotConfig,   \* the file ".config"  (written by the C implementation)
    myConfig,    \* the file "._config" (written by the harness)
    verdict,     \* value returned by the last call of equal_confs()
    skipped,     \* value of the index i when equal_confs() returned
    tree,        \* the directory "arch": its entries, in os.listdir() order
    environ,     \* os.environ
    arch_configs,\* the list returned by get_arch_configs()
    confState,   \* per Config instance: "fresh" after reset(), else "used"
    testIdx,     \* position of test_fn in all_arch_tests (0: before the loop)
    confIdx,     \* position of conf in arch_configs (0: before the loop)
    defconfigs,  \* the list test_defconfig() collects
    defIdx,      \* position of defconfig in defconfigs (0: before the loop)
    nconfigs,    \* the counter of arch/defconfig pairs
    _all_ok,     \* the ledger
    fail_log,    \* records appended to the file test_defconfig_fails
    report,      \* what the summary step printed
    attempted,   \* (history) the trials started, in order
    recorded,    \* (history) the trials whose result was recorded, in order
    everFailed,  \* (history) fail() has been called
    steps,       \* (history) the steps of the trial in progress, in order
    fresh,       \* (history) the snapshot paths written since rm_configs()
    raised,      \* what conf.eval("y && && y") raised in test_call_all()
    algo,        \* the loop analysed: "all_no" or "all_yes"
    is_choice_item,    \* per symbol: sym.is_choice_item()
    value,             \* per symbol: sym.calc_value()
    lower_bound,       \* per symbol: sym.get_lower_bound()
    upper_bound,       \* per symbol: sym.get_upper_bound()
    visibility,        \* choice.get_visibility()
    default_selection, \* choice.get_selection_from_defaults()
    user_selection,    \* choice.get_user_selection()
    done,        \* the flag done of the loop
    cursor,      \* symbols already visited by the running for loop
    passes,      \* (history) passes of the while loop begun in this run
    mutated,     \* (history) set_value has been called in the current pass
    called,      \* (history) the step just taken called set_value
    requested,   \* (history) the value that call asked for, else None
    run,         \* (history) 1: first run of the loop, 2: run on its output
    saved        \* (history) the values the second run started from

fileVars == <<dotConfig, myConfig, verdict, skipped>>
runVars == <<tree, environ, arch_configs, confState, testIdx, confIdx,
             defconfigs, defIdx, nconfigs, _all_ok, fail_log, report,
             attempted, recorded, everFailed>>
trialVars == <<steps, fresh, raised>>
resVars == <<algo, is_choice_item, value, lower_bound, upper_bound,
             visibility, default_selection, user_selection, done, cursor,
             passes, mutated, called, requested, run, saved>>

(***************************************************************************)
(* Bounds of the model.                                                    *)
(***************************************************************************)
MaxHeader == 3      \* longest generated header (ordinary comment lines)
MaxBody == 2        \* longest generated run of arbitrary lines
MaxDirs == 2        \* most entries of the directory "arch"
MaxFiles == 1       \* most files of one arch/<arch>/configs directory
NSyms == 2          \* symbols of the configuration the loops run on
MaxPasses == 3      \* passes of a loop the model counts

(***************************************************************************)
(* Lines of a persisted snapshot, as readlines() returns them.             *)
(***************************************************************************)
BlankLine == "\n"
CommentLine == "#\n"
NearUnsetLine == "# CONFIG_ is not set\n"
UnsetLine == "# CONFIG_FOO is not set\n"
AssignLine == "BAR=y\n"

Lines == {BlankLine, CommentLine, NearUnsetLine, UnsetLine, AssignLine}

\* str.startswith
startswith(line, prefix) ==
    /\ Len(line) >= Len(prefix)
    /\ SubSeq(line, 1, Len(prefix)) = prefix

\* the characters matched by \w
WordChars ==
    {"a","b","c","d","e","f","g","h","i","j","k","l","m","n","o","p","q","r",
     "s","t","u","v","w","x","y","z",
     "A","B","C","D","E","F","G","H","I","J","K","L","M","N","O","P","Q","R",
     "S","T","U","V","W","X","Y","Z",
     "0","1","2","3","4","5","6","7","8","9","_"}

\* the end of the longest run of \w characters of line that starts at from
RECURSIVE WordRunEnd(_, _)
WordRunEnd(line, from) ==
    IF from <= Len(line) /\ SubSeq(line, from, from) \in WordChars
    THEN WordRunEnd(line, from + 1)
    ELSE from - 1

unset_prefix == "# CONFIG_"
unset_suffix == " is not set"

\* re.match(r"# CONFIG_(\w+) is not set", line): anchored at the start of the
\* line only; \w+ cannot give a character back to the blank that follows it.
unset_re(line) ==
    /\ startswith(line, unset_prefix)
    /\ LET first == Len(unset_prefix) + 1
           last == WordRunEnd(line, first)
       IN  /\ last >= first
           /\ Len(line) >= last + Len(unset_suffix)
           /\ SubSeq(line, last + 1, last + Len(unset_suffix)) = unset_suffix

\* (mutant) the loop without the unset_re test: every '#' line is skipped
RECURSIVE SkipHeaderAllComments(_, _)
SkipHeaderAllComments(l1, i) ==
    IF i < Len(l1) /\ startswith(l1[i + 1], "#")
    THEN SkipHeaderAllComments(l1, i + 1)
    ELSE i

\* the loop of equal_confs(): the index i at which it stops
RECURSIVE SkipHeader(_, _)
SkipHeader(l1, i) ==
    IF i < Len(l1) /\ ~(~startswith(l1[i + 1], "#") \/ unset_re(l1[i + 1]))
    THEN SkipHeader(l1, i + 1)
    ELSE i

\* (mutant) the header is not skipped
equal_confs_noskip(l1, l2) ==
    l1 = l2

\* l1[i:] == l2
equal_confs(l1, l2) ==
    SubSeq(l1, SkipHeader(l1, 0) + 1, Len(l1)) = l2

(***************************************************************************)
(* Files.                                                                  *)
(***************************************************************************)
NoFile == [exists |-> FALSE, lines |-> <<>>]
File(ls) == [exists |-> TRUE, lines |-> ls]

RECURSIVE Header(_)
Header(k) == IF k = 0 THEN <<>> ELSE <<CommentLine>> \o Header(k - 1)

SeqsUpTo(S, n) == UNION {[1..k -> S] : k \in 0..n}

\* the snapshots the comparator is run on: a header of ordinary comments
\* followed by arbitrary lines
Snapshots == {Header(k) \o b : k \in 0..MaxHeader, b \in SeqsUpTo(Lines, MaxBody)}

vars == <<pc, fileVars, runVars, trialVars, resVars>>

\* the state of the components that are not under analysis
FilesIdle ==
    /\ dotConfig = NoFile /\ myConfig = NoFile
    /\ verdict = FALSE /\ skipped = 0

RunIdle ==
    /\ tree = <<>>
    /\ environ = [v \in {"ARCH", "SRCARCH", "KERNELVERSION", "KCONFIG_ALLCONFIG"}
                     |-> "<unset>"]
    /\ arch_configs = <<>> /\ confState = <<>>
    /\ testIdx = 0 /\ confIdx = 0 /\ defIdx = 0
    /\ defconfigs = <<>>
    /\ nconfigs = 0
    /\ _all_ok = TRUE
    /\ fail_log = [n |-> 0, last |-> <<>>]
    /\ report = [verdict |-> "", count_printed |-> FALSE, count |-> 0]
    /\ attempted = <<>> /\ recorded = <<>>
    /\ everFailed = FALSE
    /\ steps = <<>> /\ fresh = {} /\ raised = ""

ResolveIdle ==
    /\ algo = ""
    /\ is_choice_item = <<>> /\ value = <<>>
    /\ lower_bound = <<>> /\ upper_bound = <<>>
    /\ visibility = 0 /\ default_selection = 0 /\ user_selection = 0
    /\ done = FALSE /\ cursor = 0 /\ passes = 0 /\ mutated = FALSE /\ called = FALSE
    /\ requested = 0
    /\ run = 0 /\ saved = <<>>

\* where equal_confs() returns to
ReturnPoint ==
    CASE pc = "compare" -> "record"
      [] pc = "def_compare" -> "def_record"
      [] OTHER -> "returned"

\* equal_confs() returns
EqualConfsReturn ==
    /\ pc \in {"equal_confs", "compare", "def_compare"}
    /\ dotConfig.exists /\ myConfig.exists
    /\ skipped' = SkipHeader(dotConfig.lines, 0)
    /\ verdict' = equal_confs(dotConfig.lines, myConfig.lines)
    /\ pc' = ReturnPoint
    /\ UNCHANGED <<resVars, dotConfig, myConfig, runVars>>
    /\ steps' = IF pc = "equal_confs" THEN steps ELSE Append(steps, "compare")
    /\ UNCHANGED <<fresh, raised>>

\* open() raises IOError: one of the two files does not exist; nothing
\* catches it
EqualConfsRaise ==
    /\ pc \in {"equal_confs", "compare", "def_compare"}
    /\ ~(dotConfig.exists /\ myConfig.exists)
    /\ pc' = "crashed"
    /\ UNCHANGED <<resVars, fileVars, runVars>>
    /\ UNCHANGED trialVars

(***************************************************************************)
(* The directory "arch" and the two enumerations read from it.             *)
(***************************************************************************)
Unset == "<unset>"

\* one entry of os.listdir("arch")
Entry(name, kconfig, defconfig, configs, files) ==
    [name |-> name,            \* the entry's name
     kconfig |-> kconfig,      \* arch/<name>/Kconfig exists
     defconfig |-> defconfig,  \* arch/<name>/defconfig exists
     configs |-> configs,      \* arch/<name>/configs: "absent", "file", "dir"
     files |-> files]          \* the files below arch/<name>/configs, in the
                               \* order os.walk() returns them

FileNames == <<"a_defconfig", "b_defconfig", "c_defconfig", "d_defconfig">>

\* the orders in which the file system may list the first k of FileNames:
\* os.walk() does not sort, every order is possible
Listings(k) ==
    {[i \in 1..k |-> FileNames[p[i]]] :
        p \in {q \in [1..k -> 1..k] : \A i, j \in 1..k : i # j => q[i] # q[j]}}

\* the entries the model draws "arch" from: the file arch/Kconfig, the arch
\* h8300 with a root defconfig, sh with no root defconfig and a configs
\* directory of one file at most, and arm with configs a plain file (with
\* or without a root defconfig) or, next to a root defconfig, a directory of
\* up to MaxFiles files in any order
Entries ==
    {Entry("Kconfig", FALSE, FALSE, "absent", <<>>)}
    \cup {Entry("h8300", TRUE, TRUE, "absent", <<>>)}
    \cup {Entry("sh", TRUE, FALSE, "dir", fs) : fs \in Listings(0) \cup Listings(1)}
    \cup {Entry("arm", TRUE, d, "file", <<>>) : d \in BOOLEAN}
    \cup UNION {{Entry("arm", TRUE, TRUE, "dir", fs) : fs \in Listings(k)} :
                   k \in 0..MaxFiles}

Trees ==
    {t \in SeqsUpTo(Entries, MaxDirs) :
        \A i, j \in 1..Len(t) : i # j => t[i].name # t[j].name}

\* the additional ARCH settings with ARCH != SRCARCH
ExtraArchs(archdir) ==
    CASE archdir = "x86" -> <<"i386", "x86_64">>
      [] archdir = "sparc" -> <<"sparc32", "sparc64">>
      [] archdir = "sh" -> <<"sh64">>
      [] archdir = "tile" -> <<"tilepro", "tilegx">>
      [] OTHER -> <<>>

\* add_arch for archdir and each of its additional ARCH settings
ArchsOf(archdir) ==
    LET all == <<archdir>> \o ExtraArchs(archdir)
    IN  [k \in 1..Len(all) |-> [arch |-> all[k], srcarch |-> archdir]]

\* the loop of get_arch_configs() over os.listdir("arch")
RECURSIVE ArchConfigs(_)
ArchConfigs(listing) ==
    IF listing = <<>> THEN <<>>
    ELSE LET e == Head(listing)
         IN  (IF e.name = "h8300" THEN <<>>
              ELSE IF e.kconfig THEN ArchsOf(e.name)
              ELSE <<>>) \o ArchConfigs(Tail(listing))

\* the defconfigs test_defconfig() collects for one entry of "arch": the
\* root defconfig, then the files of configs/ in the order they are listed
DefconfigsOfEntry(e) ==
    LET arch_dir == "arch/" \o e.name
        root == IF e.defconfig THEN <<arch_dir \o "/defconfig">> ELSE <<>>
    IN  IF e.configs = "absent" THEN root
        ELSE IF e.configs # "dir" THEN root
        ELSE root \o [k \in 1..Len(e.files) |->
                         arch_dir \o "/configs/" \o e.files[k]]

\* (mutant) the collection skips h8300, as get_arch_configs() does
RECURSIVE DefconfigsSkipBroken(_)
DefconfigsSkipBroken(listing) ==
    IF listing = <<>> THEN <<>>
    ELSE (IF Head(listing).name = "h8300" THEN <<>>
          ELSE DefconfigsOfEntry(Head(listing)))
         \o DefconfigsSkipBroken(Tail(listing))

\* the collection loop of test_defconfig() over os.listdir("arch")
RECURSIVE Defconfigs(_)
Defconfigs(listing) ==
    IF listing = <<>> THEN <<>>
    ELSE DefconfigsOfEntry(Head(listing)) \o Defconfigs(Tail(listing))

(***************************************************************************)
(* The orchestrator run_tests().                                           *)
(***************************************************************************)
\* all_arch_tests: the test functions and their compare_configs flags
all_arch_tests ==
    <<[fn |-> "test_all_no", compare_configs |-> TRUE],
      [fn |-> "test_config_absent", compare_configs |-> TRUE],
      [fn |-> "test_all_yes", compare_configs |-> TRUE],
      [fn |-> "test_call_all", compare_configs |-> FALSE],
      [fn |-> "test_defconfig", compare_configs |-> FALSE]>>

test_fn == all_arch_tests[testIdx].fn
compare_configs == all_arch_tests[testIdx].compare_configs

\* the snapshots write_config() may produce, and those the reference tool may
SnapA == <<UnsetLine, AssignLine>>
SnapB == <<AssignLine>>
MySnapshots == {SnapA, SnapB}
ToolSnapshots == {Header(1) \o SnapA, Header(1) \o SnapB}

\* the content of a defconfig file
DefconfigContent(path) == SnapB

\* identifiers of trials: the test, the Config instance, the defconfig
Trial(t, c, d) == <<t, c, d>>
NoDefconfig == "-"
ThisTrial ==
    Trial(testIdx, confIdx,
          IF defIdx = 0 THEN NoDefconfig ELSE defconfigs[defIdx])

\* the state the process starts in: the module has not been imported yet
Init ==
    /\ pc = "import"
    /\ tree \in Trees
    /\ environ \in [{"ARCH", "SRCARCH", "KERNELVERSION", "KCONFIG_ALLCONFIG"}
                       -> {Unset, "inherited"}]
    /\ environ["KERNELVERSION"] = Unset
    /\ dotConfig \in {NoFile, File(SnapB)}
    /\ myConfig = dotConfig
    /\ verdict = FALSE /\ skipped = 0
    /\ arch_configs = <<>> /\ confState = <<>>
    /\ testIdx = 0 /\ confIdx = 0 /\ defIdx = 0
    /\ defconfigs = <<>>
    /\ nconfigs = 0
    /\ _all_ok = TRUE
    /\ fail_log = [n |-> 0, last |-> <<>>]
    /\ report = [verdict |-> "", count_printed |-> FALSE, count |-> 0]
    /\ attempted = <<>> /\ recorded = <<>>
    /\ everFailed = FALSE
    /\ steps = <<>> /\ fresh = {} /\ raised = ""
    /\ ResolveIdle

\* the module-level statements
ModuleImport ==
    /\ pc = "import"
    /\ environ' = [environ EXCEPT !["KERNELVERSION"] = "2",
                                  !["KCONFIG_ALLCONFIG"] = Unset]
    /\ nconfigs' = 0
    /\ _all_ok' = TRUE
    /\ pc' = "get_arch_configs"
    /\ UNCHANGED <<resVars, fileVars, tree, arch_configs, confState, testIdx, confIdx,
                   defconfigs, defIdx, fail_log, report, attempted, recorded,
                   everFailed>>
    /\ UNCHANGED trialVars

\* os.environ after the add_arch calls of get_arch_configs()
EnvAfterAddArch(env, res) ==
    IF res = <<>> THEN env
    ELSE [env EXCEPT !["ARCH"] = res[Len(res)].arch,
                     !["SRCARCH"] = res[Len(res)].srcarch]

\* get_arch_configs() returns
GetArchConfigs ==
    /\ pc = "get_arch_configs"
    /\ LET res == ArchConfigs(tree)
           env == EnvAfterAddArch(environ, res)
       IN  /\ env["ARCH"] # Unset /\ env["SRCARCH"] # Unset
           /\ arch_configs' = res
           /\ confState' = [k \in 1..Len(res) |-> "fresh"]
           /\ environ' = [env EXCEPT !["ARCH"] = Unset, !["SRCARCH"] = Unset]
    /\ pc' = "for_test"
    /\ UNCHANGED <<resVars, fileVars, tree, testIdx, confIdx, defconfigs, defIdx,
                   nconfigs, _all_ok, fail_log, report, attempted, recorded,
                   everFailed>>
    /\ UNCHANGED trialVars

\* no arch was added and one of the two variables was not inherited:
\* del os.environ["ARCH"] raises KeyError, or it deletes ARCH and
\* del os.environ["SRCARCH"] raises KeyError
GetArchConfigsKeyError ==
    /\ pc = "get_arch_configs"
    /\ LET env == EnvAfterAddArch(environ, ArchConfigs(tree))
       IN  /\ env["ARCH"] = Unset \/ env["SRCARCH"] = Unset
           /\ environ' = [env EXCEPT !["ARCH"] = Unset]
    /\ pc' = "crashed"
    /\ UNCHANGED <<resVars, fileVars, tree, arch_configs, confState, testIdx,
                   confIdx, defconfigs, defIdx, nconfigs, _all_ok, fail_log,
                   report, attempted, recorded, everFailed>>
    /\ UNCHANGED trialVars

\* for (test_fn, compare_configs) in all_arch_tests
ForTest ==
    /\ pc = "for_test"
    /\ IF testIdx < Len(all_arch_tests)
       THEN testIdx' = testIdx + 1 /\ pc' = "reset"
       ELSE testIdx' = testIdx /\ pc' = "summary"
    /\ confIdx' = 0
    /\ UNCHANGED <<resVars, fileVars, tree, environ, arch_configs, confState,
                   defconfigs, defIdx, nconfigs, _all_ok, fail_log, report,
                   attempted, recorded, everFailed>>
    /\ UNCHANGED trialVars

\* (mutant) the Config instances are not reset between the tests
ResetAllSkips ==
    /\ pc = "reset"
    /\ confState' = confState
    /\ pc' = "for_conf"
    /\ UNCHANGED <<resVars, fileVars, tree, environ, arch_configs, testIdx, confIdx,
                   defconfigs, defIdx, nconfigs, _all_ok, fail_log, report,
                   attempted, recorded, everFailed>>
    /\ UNCHANGED trialVars

\* for arch in arch_configs: arch.reset()
ResetAll ==
    /\ pc = "reset"
    /\ confState' = [k \in 1..Len(arch_configs) |-> "fresh"]
    /\ pc' = "for_conf"
    /\ UNCHANGED <<resVars, fileVars, tree, environ, arch_configs, testIdx, confIdx,
                   defconfigs, defIdx, nconfigs, _all_ok, fail_log, report,
                   attempted, recorded, everFailed>>
    /\ UNCHANGED trialVars

\* for conf in arch_configs
ForConf ==
    /\ pc = "for_conf"
    /\ IF confIdx < Len(arch_configs)
       THEN confIdx' = confIdx + 1 /\ pc' = "rm_configs"
       ELSE confIdx' = confIdx /\ pc' = "for_test"
    /\ UNCHANGED <<resVars, fileVars, tree, environ, arch_configs, confState, testIdx,
                   defconfigs, defIdx, nconfigs, _all_ok, fail_log, report,
                   attempted, recorded, everFailed>>
    /\ UNCHANGED trialVars

\* (mutant) rm_configs() removes "._config" only
RmConfigsKeepsDotConfig ==
    /\ pc = "rm_configs"
    /\ dotConfig' = dotConfig
    /\ myConfig' = NoFile
    /\ pc' = "set_arch"
    /\ UNCHANGED <<resVars, verdict, skipped, runVars>>
    /\ steps' = <<"clear">>
    /\ fresh' = {}
    /\ UNCHANGED raised

\* rm_configs()
RmConfigs ==
    /\ pc = "rm_configs"
    /\ dotConfig' = NoFile
    /\ myConfig' = NoFile
    /\ pc' = "set_arch"
    /\ UNCHANGED <<resVars, verdict, skipped, runVars>>
    /\ steps' = <<"clear">>
    /\ fresh' = {}
    /\ UNCHANGED raised

\* (mutant) os.environ["ARCH"] = conf.get_srcarch()
SetArchSrcarch ==
    /\ pc = "set_arch"
    /\ environ' = [environ EXCEPT !["ARCH"] = arch_configs[confIdx].srcarch]
    /\ attempted' = Append(attempted, ThisTrial)
    /\ pc' = test_fn
    /\ UNCHANGED <<resVars, fileVars, tree, arch_configs, confState, testIdx, confIdx,
                   defconfigs, defIdx, nconfigs, _all_ok, fail_log, report,
                   recorded, everFailed>>
    /\ steps' = Append(steps, "configure")
    /\ UNCHANGED fresh
    /\ UNCHANGED raised

\* os.environ["ARCH"] = conf.get_arch(), then test_fn(conf) is entered
SetArch ==
    /\ pc = "set_arch"
    /\ environ' = [environ EXCEPT !["ARCH"] = arch_configs[confIdx].arch]
    /\ attempted' = Append(attempted, ThisTrial)
    /\ pc' = test_fn
    /\ UNCHANGED <<resVars, fileVars, tree, arch_configs, confState, testIdx, confIdx,
                   defconfigs, defIdx, nconfigs, _all_ok, fail_log, report,
                   recorded, everFailed>>
    /\ steps' = Append(steps, "configure")
    /\ UNCHANGED fresh
    /\ UNCHANGED raised

\* (mutant) fail() without its global statement: the assignment is local
fail_local ==
    /\ _all_ok' = _all_ok
    /\ everFailed' = TRUE

\* fail()
fail ==
    /\ _all_ok' = FALSE
    /\ everFailed' = TRUE

\* all_ok()
all_ok == _all_ok

\* the Config instance after the loop of test_all_no() or test_all_yes():
\* a loop that called set_value leaves it changed, a loop that found
\* nothing to set (a Config without symbols, say) leaves it as it was
AfterLoop(mutates) ==
    IF mutates THEN [confState EXCEPT ![confIdx] = "used"] ELSE confState

\* test_all_no(conf) up to conf.write_config("._config")
TestAllNo ==
    /\ pc = "test_all_no"
    /\ \E mutates \in BOOLEAN : confState' = AfterLoop(mutates)
    /\ \E snap \in MySnapshots : myConfig' = File(snap)
    /\ pc' = "shell"
    /\ UNCHANGED <<resVars, dotConfig, verdict, skipped, tree, environ, arch_configs,
                   testIdx, confIdx, defconfigs, defIdx, nconfigs, _all_ok,
                   fail_log, report, attempted, recorded, everFailed>>
    /\ steps' = Append(steps, "persist")
    /\ fresh' = fresh \cup {"._config"}
    /\ UNCHANGED raised

\* test_config_absent(conf) up to conf.write_config("._config")
TestConfigAbsent ==
    /\ pc = "test_config_absent"
    /\ \E snap \in MySnapshots : myConfig' = File(snap)
    /\ pc' = "shell"
    /\ UNCHANGED <<resVars, dotConfig, verdict, skipped, runVars>>
    /\ steps' = Append(steps, "persist")
    /\ fresh' = fresh \cup {"._config"}
    /\ UNCHANGED raised

\* test_all_yes(conf) up to conf.write_config("._config")
TestAllYes ==
    /\ pc = "test_all_yes"
    /\ \E mutates \in BOOLEAN : confState' = AfterLoop(mutates)
    /\ \E snap \in MySnapshots : myConfig' = File(snap)
    /\ pc' = "shell"
    /\ UNCHANGED <<resVars, dotConfig, verdict, skipped, tree, environ, arch_configs,
                   testIdx, confIdx, defconfigs, defIdx, nconfigs, _all_ok,
                   fail_log, report, attempted, recorded, everFailed>>
    /\ steps' = Append(steps, "persist")
    /\ fresh' = fresh \cup {"._config"}
    /\ UNCHANGED raised

\* shell("make allnoconfig"), shell("make alldefconfig") or
\* shell("make allyesconfig"): the reference tool writes ".config", or it
\* fails and writes nothing; shell() does not look at the exit status
ShellMake ==
    /\ pc = "shell"
    /\ \/ /\ \E snap \in ToolSnapshots : dotConfig' = File(snap)
          /\ fresh' = fresh \cup {".config"}
       \/ /\ dotConfig' = dotConfig
          /\ fresh' = fresh
    /\ pc' = "returned_test"
    /\ UNCHANGED <<resVars, myConfig, verdict, skipped, runVars>>
    /\ steps' = Append(steps, "invoke")
    /\ UNCHANGED raised

\* test_call_all(conf): conf.eval("y && ARCH") raises, or
\* conf.eval("y && && y") raises something else than Kconfig_Syntax_Error:
\* nothing catches it
CallAllEvalRaises ==
    /\ pc = "test_call_all"
    /\ pc' = "crashed"
    /\ UNCHANGED <<resVars, fileVars, runVars>>
    /\ \E expr \in {"y && ARCH", "y && && y"} :
          raised' = IF expr = "y && && y" THEN "other" ELSE raised
    /\ UNCHANGED <<steps, fresh>>

\* (mutant) the except clause catches every exception
CallAllEvalCatchesAll ==
    /\ pc = "test_call_all"
    /\ \E exc \in {"none", "Kconfig_Syntax_Error", "other"} :
          LET caught_exception == exc # "none"
          IN  /\ raised' = exc
              /\ IF ~caught_exception THEN fail
                 ELSE UNCHANGED <<_all_ok, everFailed>>
    /\ pc' = "call_all_checks"
    /\ UNCHANGED <<resVars, fileVars, tree, environ, arch_configs, confState, testIdx,
                   confIdx, defconfigs, defIdx, nconfigs, fail_log, report,
                   attempted, recorded>>
    /\ UNCHANGED <<steps, fresh>>

\* test_call_all(conf) up to the syntax error check
CallAllEval ==
    /\ pc = "test_call_all"
    /\ \E exc \in {"none", "Kconfig_Syntax_Error"} :
          LET caught_exception == exc = "Kconfig_Syntax_Error"
          IN  /\ raised' = exc
              /\ IF ~caught_exception THEN fail
                 ELSE UNCHANGED <<_all_ok, everFailed>>
    /\ pc' = "call_all_checks"
    /\ UNCHANGED <<resVars, fileVars, tree, environ, arch_configs, confState, testIdx,
                   confIdx, defconfigs, defIdx, nconfigs, fail_log, report,
                   attempted, recorded>>
    /\ UNCHANGED <<steps, fresh>>

\* test_call_all(conf) from conf.get_config_header() on: conf.reset(), the
\* accessor calls and the sanity checks of the define locations
CallAllChecks ==
    /\ pc = "call_all_checks"
    /\ confState' = [confState EXCEPT ![confIdx] = "fresh"]
    /\ \E sane \in BOOLEAN :
          IF ~sane THEN fail
          ELSE UNCHANGED <<_all_ok, everFailed>>
    /\ pc' = "returned_test"
    /\ UNCHANGED <<resVars, fileVars, tree, environ, arch_configs, testIdx, confIdx,
                   defconfigs, defIdx, nconfigs, fail_log, report, attempted,
                   recorded>>
    /\ UNCHANGED trialVars

\* test_defconfig(conf): the log is opened and the defconfigs are collected
DefCollect ==
    /\ pc = "test_defconfig"
    /\ defconfigs' = Defconfigs(tree)
    /\ defIdx' = 0
    /\ pc' = "for_defconfig"
    /\ UNCHANGED <<resVars, fileVars, tree, environ, arch_configs, confState, testIdx,
                   confIdx, nconfigs, _all_ok, fail_log, report, attempted,
                   recorded, everFailed>>
    /\ UNCHANGED trialVars

\* for defconfig in defconfigs
ForDefconfig ==
    /\ pc = "for_defconfig"
    /\ IF defIdx < Len(defconfigs)
       THEN defIdx' = defIdx + 1 /\ pc' = "def_rm_configs"
       ELSE defIdx' = 0 /\ pc' = "returned_test"
    /\ UNCHANGED <<resVars, fileVars, tree, environ, arch_configs, confState, testIdx,
                   confIdx, defconfigs, nconfigs, _all_ok, fail_log, report,
                   attempted, recorded, everFailed>>
    /\ UNCHANGED trialVars

\* rm_configs(); nconfigs += 1
DefRmConfigs ==
    /\ pc = "def_rm_configs"
    /\ dotConfig' = NoFile
    /\ myConfig' = NoFile
    /\ nconfigs' = nconfigs + 1
    /\ attempted' = Append(attempted, ThisTrial)
    /\ pc' = "def_load"
    /\ UNCHANGED <<resVars, verdict, skipped, tree, environ, arch_configs, confState,
                   testIdx, confIdx, defconfigs, defIdx, _all_ok, fail_log,
                   report, recorded, everFailed>>
    /\ steps' = <<"clear">>
    /\ fresh' = {}
    /\ UNCHANGED raised

\* conf.load_config(defconfig); conf.write_config("._config")
DefLoadWrite ==
    /\ pc = "def_load"
    /\ confState' = [confState EXCEPT ![confIdx] = "used"]
    /\ \E snap \in MySnapshots : myConfig' = File(snap)
    /\ pc' = "def_cp"
    /\ UNCHANGED <<resVars, dotConfig, verdict, skipped, tree, environ, arch_configs,
                   testIdx, confIdx, defconfigs, defIdx, nconfigs, _all_ok,
                   fail_log, report, attempted, recorded, everFailed>>
    /\ steps' = Append(steps, "persist")
    /\ fresh' = fresh \cup {"._config"}
    /\ UNCHANGED raised

\* shell("cp {0} .config".format(defconfig)): cp copies the defconfig, or
\* it fails (the path is a directory or a dangling link) and writes
\* nothing; shell() does not look at the exit status
DefCp ==
    /\ pc = "def_cp"
    /\ \/ /\ dotConfig' = File(DefconfigContent(defconfigs[defIdx]))
          /\ fresh' = fresh \cup {".config"}
       \/ /\ dotConfig' = dotConfig
          /\ fresh' = fresh
    /\ pc' = "def_make"
    /\ UNCHANGED <<resVars, myConfig, verdict, skipped, runVars>>
    /\ steps' = Append(steps, "copy")
    /\ UNCHANGED raised

\* shell("make kconfiglibtestconfig"): the reference tool rewrites ".config",
\* or it fails and leaves what cp left
DefMake ==
    /\ pc = "def_make"
    /\ \/ /\ \E snap \in ToolSnapshots : dotConfig' = File(snap)
          /\ fresh' = fresh \cup {".config"}
       \/ /\ dotConfig' = dotConfig
          /\ fresh' = fresh
    /\ pc' = "def_compare"
    /\ UNCHANGED <<resVars, myConfig, verdict, skipped, runVars>>
    /\ steps' = Append(steps, "invoke")
    /\ UNCHANGED raised

\* if compare_configs: equal_confs() is called
IfCompare ==
    /\ pc = "returned_test"
    /\ compare_configs
    /\ pc' = "compare"
    /\ UNCHANGED <<resVars, fileVars, runVars>>
    /\ UNCHANGED trialVars

\* if compare_configs: it is false, the loop goes on with the next conf
IfNotCompare ==
    /\ pc = "returned_test"
    /\ ~compare_configs
    /\ recorded' = Append(recorded, ThisTrial)
    /\ pc' = "for_conf"
    /\ UNCHANGED <<resVars, fileVars, tree, environ, arch_configs, confState, testIdx,
                   confIdx, defconfigs, defIdx, nconfigs, _all_ok, fail_log,
                   report, attempted, everFailed>>
    /\ raised' = ""
    /\ UNCHANGED <<steps, fresh>>

\* (mutant) the run stops at the first failed comparison
RecordFailAbort ==
    /\ pc = "record"
    /\ ~verdict
    /\ fail
    /\ recorded' = Append(recorded, ThisTrial)
    /\ pc' = "summary"
    /\ UNCHANGED <<resVars, fileVars, tree, environ, arch_configs, confState, testIdx,
                   confIdx, defconfigs, defIdx, nconfigs, fail_log, report,
                   attempted>>
    /\ steps' = Append(steps, "record")
    /\ UNCHANGED fresh
    /\ UNCHANGED raised

\* print "OK"
RecordOk ==
    /\ pc = "record"
    /\ verdict
    /\ recorded' = Append(recorded, ThisTrial)
    /\ pc' = "for_conf"
    /\ UNCHANGED <<resVars, fileVars, tree, environ, arch_configs, confState, testIdx,
                   confIdx, defconfigs, defIdx, nconfigs, _all_ok, fail_log,
                   report, attempted, everFailed>>
    /\ steps' = Append(steps, "record")
    /\ UNCHANGED fresh
    /\ UNCHANGED raised

\* print "FAIL"; fail()
RecordFail ==
    /\ pc = "record"
    /\ ~verdict
    /\ fail
    /\ recorded' = Append(recorded, ThisTrial)
    /\ pc' = "for_conf"
    /\ UNCHANGED <<resVars, fileVars, tree, environ, arch_configs, confState, testIdx,
                   confIdx, defconfigs, defIdx, nconfigs, fail_log, report,
                   attempted>>
    /\ steps' = Append(steps, "record")
    /\ UNCHANGED fresh
    /\ UNCHANGED raised

\* test_defconfig(): print "OK"
DefRecordOk ==
    /\ pc = "def_record"
    /\ verdict
    /\ recorded' = Append(recorded, ThisTrial)
    /\ pc' = "for_defconfig"
    /\ UNCHANGED <<resVars, fileVars, tree, environ, arch_configs, confState, testIdx,
                   confIdx, defconfigs, defIdx, nconfigs, _all_ok, fail_log,
                   report, attempted, everFailed>>
    /\ steps' = Append(steps, "record")
    /\ UNCHANGED fresh
    /\ UNCHANGED raised

\* (mutant) a mismatch is printed and marks the ledger, the log is not written
DefRecordFailNoLog ==
    /\ pc = "def_record"
    /\ ~verdict
    /\ fail_log' = fail_log
    /\ fail
    /\ recorded' = Append(recorded, ThisTrial)
    /\ pc' = "for_defconfig"
    /\ UNCHANGED <<resVars, fileVars, tree, environ, arch_configs, confState, testIdx,
                   confIdx, defconfigs, defIdx, nconfigs, report, attempted>>
    /\ steps' = Append(steps, "record")
    /\ UNCHANGED fresh
    /\ UNCHANGED raised

\* test_defconfig(): print "FAIL"; fail_log.write(...); fail()
DefRecordFail ==
    /\ pc = "def_record"
    /\ ~verdict
    /\ fail_log' = [n |-> fail_log.n + 1,
                    last |-> <<arch_configs[confIdx].arch, defconfigs[defIdx]>>]
    /\ fail
    /\ recorded' = Append(recorded, ThisTrial)
    /\ pc' = "for_defconfig"
    /\ UNCHANGED <<resVars, fileVars, tree, environ, arch_configs, confState, testIdx,
                   confIdx, defconfigs, defIdx, nconfigs, report, attempted>>
    /\ steps' = Append(steps, "record")
    /\ UNCHANGED fresh
    /\ UNCHANGED raised

NotPrinted == [verdict |-> "", count_printed |-> FALSE, count |-> 0]

\* (mutant) the pair count is printed after either verdict
SummarizeAlwaysCount ==
    /\ pc = "summary"
    /\ report' = [verdict |-> IF all_ok THEN "All OK" ELSE "Some tests failed",
                  count_printed |-> TRUE,
                  count |-> nconfigs]
    /\ pc' = "done"
    /\ UNCHANGED <<resVars, fileVars, tree, environ, arch_configs, confState, testIdx,
                   confIdx, defconfigs, defIdx, nconfigs, _all_ok, fail_log,
                   attempted, recorded, everFailed>>
    /\ UNCHANGED trialVars

\* if all_ok(): print "All OK"; print nconfigs, ... else: print "Some tests
\* failed"
Summarize ==
    /\ pc = "summary"
    /\ report' = IF all_ok
                 THEN [verdict |-> "All OK", count_printed |-> TRUE,
                       count |-> nconfigs]
                 ELSE [verdict |-> "Some tests failed",
                       count_printed |-> FALSE, count |-> 0]
    /\ pc' = "done"
    /\ UNCHANGED <<resVars, fileVars, tree, environ, arch_configs, confState, testIdx,
                   confIdx, defconfigs, defIdx, nconfigs, _all_ok, fail_log,
                   attempted, recorded, everFailed>>
    /\ UNCHANGED trialVars

Next ==
    \/ ModuleImport
    \/ GetArchConfigs \/ GetArchConfigsKeyError
    \/ ForTest \/ ResetAll \/ ForConf \/ RmConfigs \/ SetArch
    \/ TestAllNo \/ TestConfigAbsent \/ TestAllYes \/ ShellMake
    \/ CallAllEvalRaises \/ CallAllEval \/ CallAllChecks
    \/ DefCollect \/ ForDefconfig \/ DefRmConfigs \/ DefLoadWrite
    \/ DefCp \/ DefMake
    \/ IfCompare \/ IfNotCompare
    \/ EqualConfsReturn \/ EqualConfsRaise
    \/ RecordOk \/ RecordFail \/ DefRecordOk \/ DefRecordFail
    \/ Summarize

Spec == Init /\ [][Next]_vars

(***************************************************************************)
(* The resolution engine, from its contract: tristate symbols with a       *)
(* current value and bounds, and one choice with a visibility, a default   *)
(* selection and a user selection.  At every set_value the engine clamps   *)
(* the value and recomputes values, bounds, visibility and default         *)
(* selection.  The state keeps the attributes the loop under analysis can  *)
(* read before the next set_value; an attribute it cannot read is not part *)
(* of the state and, where set_value depends on it, takes any value the    *)
(* contract allows.                                                        *)
(***************************************************************************)
TriN == 0
TriM == 1
TriY == 2
Tri == {TriN, TriM, TriY}
None == -1

Syms == 1..NSyms

\* kconfiglib.tri_less
tri_less(v1, v2) == v1 < v2

\* lower_bound <= value <= upper_bound whenever the bounds are defined
BoundsOk(val, lb, ub) ==
    /\ lb # None => lb <= val
    /\ ub # None => val <= ub

\* the value a symbol with bounds lb and ub takes when it is set to v: v,
\* clamped to the bounds
Clamp(v, lb, ub) ==
    LET lo == IF lb # None /\ v < lb THEN lb ELSE v
    IN  IF ub # None /\ lo > ub THEN ub ELSE lo

Items == {s \in Syms : is_choice_item[s]}

\* the symbols whose lower bound the loop reads: all-no reads it outside
\* choices, all-yes never
LowerRead == IF algo = "all_no" THEN Syms \ Items ELSE {}

\* the symbols whose upper bound the loop can read before the next
\* set_value: all-yes reads it outside choices, of every member of the
\* choice when the choice is visible at vis = "m", and of the members rest
\* the running loop over the members has still to visit
UpperRead(vis, rest) ==
    IF algo = "all_no" THEN {}
    ELSE (Syms \ Items) \cup (IF vis = TriM THEN Items ELSE rest)

\* the bounds a symbol can have: the one in the state, or any bound that
\* holds its value
LowerOf(t) ==
    IF t \in DOMAIN lower_bound THEN {lower_bound[t]}
    ELSE {None} \cup {b \in Tri : b <= value[t]}
UpperOf(t) ==
    IF t \in DOMAIN upper_bound THEN {upper_bound[t]}
    ELSE {None} \cup {b \in Tri : value[t] <= b}

\* the values sym can take when it is set to v
Clamped(sym, v) ==
    {Clamp(v, lb, ub) : lb \in LowerOf(sym), ub \in UpperOf(sym)}

\* the invariant of the engine on the bounds in the state
Kept(val, lbs, ubs) ==
    /\ \A t \in DOMAIN lbs : BoundsOk(val[t], lbs[t], None)
    /\ \A t \in DOMAIN ubs : BoundsOk(val[t], None, ubs[t])

\* conf.get_choices(): the choice exists when it has a member
HasChoice == Items # {}

\* the default selection is read of a choice visible at "y" only
Defaults(vis) == IF vis = TriY THEN Items \cup {None} ELSE {None}

\* sym.set_value(v): the symbol takes the value, clamped, and the engine
\* recomputes the values and the bounds of the other symbols, the visibility
\* of the choice and its default selection before it returns; rest are the
\* members the running loop over the members visits after the call
set_value(sym, v, rest) ==
    /\ value' \in [Syms -> Tri]
    /\ value'[sym] \in Clamped(sym, v)
    /\ IF algo = "all_yes" /\ HasChoice
       THEN /\ visibility' \in Tri
            /\ default_selection' \in Defaults(visibility')
       ELSE UNCHANGED <<visibility, default_selection>>
    /\ lower_bound' \in [LowerRead -> Tri \cup {None}]
    /\ upper_bound' \in [UpperRead(visibility', rest) -> Tri \cup {None}]
    /\ Kept(value', lower_bound', upper_bound')
    /\ user_selection' = IF sym \in Items /\ v = TriY THEN sym
                         ELSE user_selection

engineVars == <<value, lower_bound, upper_bound, visibility,
                default_selection, user_selection>>

(***************************************************************************)
(* The fixed-point loops test_all_no() and test_all_yes().                 *)
(***************************************************************************)
\* non_choice_syms, in the order of conf.get_symbols()
non_choice_syms ==
    LET keep == {s \in Syms : ~is_choice_item[s]}
        F[k \in 0..NSyms] ==
            IF k = 0 THEN <<>>
            ELSE IF k \in keep THEN Append(F[k - 1], k) ELSE F[k - 1]
    IN  F[NSyms]

\* choice.get_items(), in order
items ==
    LET F[k \in 0..NSyms] ==
            IF k = 0 THEN <<>>
            ELSE IF k \in Items THEN Append(F[k - 1], k) ELSE F[k - 1]
    IN  F[NSyms]

\* the state a loop starts on: any configuration the engine can hold, with
\* no user selection
InitResolve ==
    /\ algo \in {"all_no", "all_yes"}
    /\ pc = algo
    /\ \E nitems \in 0..NSyms :
          is_choice_item = [s \in Syms |-> s > NSyms - nitems]
    /\ IF algo = "all_yes" /\ HasChoice
       THEN /\ visibility \in Tri
            /\ default_selection \in Defaults(visibility)
       ELSE visibility = TriN /\ default_selection = None
    /\ user_selection = None
    /\ value \in [Syms -> Tri]
    /\ lower_bound \in [LowerRead -> Tri \cup {None}]
    /\ upper_bound \in [UpperRead(visibility, {}) -> Tri \cup {None}]
    /\ Kept(value, lower_bound, upper_bound)
    /\ done = FALSE
    /\ cursor = 0
    /\ passes = 0 /\ mutated = FALSE /\ called = FALSE /\ requested = None
    /\ run = 1
    /\ saved = [s \in Syms |-> TriN]
    /\ RunIdle
    /\ FilesIdle

\* the passes the model counts: while True has no bound and the loop need
\* not end.  The counter passes is exact up to PassCap and stays there from
\* then on
PassCap == MaxPasses

\* the counter after one more pass
CountPass == IF passes < PassCap THEN passes + 1 ELSE passes

\* (history) the step called set_value with the value v
Call(v) == called' = TRUE /\ requested' = v

\* (history) the step called set_value on no symbol
NoCall == called' = FALSE /\ requested' = None

\* (mutant) done = True is executed once, before the while loop
WhileTrueStaleDone ==
    /\ pc \in {"all_no", "all_yes"}
    /\ done' = IF passes = 0 THEN TRUE ELSE done
    /\ cursor' = 0
    /\ passes' = CountPass
    /\ mutated' = FALSE
    /\ pc' = IF algo = "all_no" THEN "all_no_for" ELSE "all_yes_for"
    /\ NoCall
    /\ UNCHANGED <<engineVars, algo, is_choice_item, run, saved, fileVars,
                   runVars>>
    /\ UNCHANGED trialVars

\* while True: done = True
WhileTrue ==
    /\ pc \in {"all_no", "all_yes"}
    /\ done' = TRUE
    /\ cursor' = 0
    /\ passes' = CountPass
    /\ mutated' = FALSE
    /\ pc' = IF algo = "all_no" THEN "all_no_for" ELSE "all_yes_for"
    /\ NoCall
    /\ UNCHANGED <<engineVars, algo, is_choice_item, run, saved, fileVars,
                   runVars>>
    /\ UNCHANGED trialVars

\* (mutant) the comparison of the all-no loop lets equal values through
AllNoLowersOrEqual(sym) ==
    /\ ~is_choice_item[sym]
    /\ lower_bound[sym] # None
    /\ ~tri_less(value[sym], lower_bound[sym])

\* (mutant) the arguments of tri_less are exchanged
AllNoLowersSwapped(sym) ==
    /\ ~is_choice_item[sym]
    /\ lower_bound[sym] # None
    /\ tri_less(value[sym], lower_bound[sym])

\* the conditions under which the all-no loop sets sym
AllNoLowers(sym) ==
    /\ ~is_choice_item[sym]
    /\ lower_bound[sym] # None
    /\ tri_less(lower_bound[sym], value[sym])

\* (mutant) one iteration of for sym in conf, without done = False
AllNoVisitKeepsDone ==
    /\ pc = "all_no_for"
    /\ cursor < NSyms
    /\ LET sym == cursor + 1
       IN  IF AllNoLowers(sym)
           THEN /\ set_value(sym, lower_bound[sym], {})
                /\ mutated' = TRUE
                /\ Call(lower_bound[sym])
           ELSE /\ UNCHANGED <<engineVars, mutated>>
                /\ NoCall
    /\ cursor' = cursor + 1
    /\ UNCHANGED <<pc, done, algo, is_choice_item, passes, run, saved,
                   fileVars, runVars>>
    /\ UNCHANGED trialVars

\* one iteration of for sym in conf
AllNoVisit ==
    /\ pc = "all_no_for"
    /\ cursor < NSyms
    /\ LET sym == cursor + 1
       IN  IF AllNoLowers(sym)
           THEN /\ set_value(sym, lower_bound[sym], {})
                /\ done' = FALSE
                /\ mutated' = TRUE
                /\ Call(lower_bound[sym])
           ELSE /\ UNCHANGED <<engineVars, done, mutated>>
                /\ NoCall
    /\ cursor' = cursor + 1
    /\ UNCHANGED <<pc, algo, is_choice_item, passes, run, saved, fileVars,
                   runVars>>
    /\ UNCHANGED trialVars

\* (mutant) the arguments of tri_less are exchanged
AllYesRaisesSwapped(sym) ==
    /\ upper_bound[sym] # None
    /\ tri_less(upper_bound[sym], value[sym])

\* the conditions under which the all-yes loop sets a symbol outside choices
AllYesRaises(sym) ==
    /\ upper_bound[sym] # None
    /\ tri_less(value[sym], upper_bound[sym])

\* one iteration of for sym in non_choice_syms
AllYesVisit ==
    /\ pc = "all_yes_for"
    /\ cursor < Len(non_choice_syms)
    /\ LET sym == non_choice_syms[cursor + 1]
       IN  IF AllYesRaises(sym)
           THEN /\ set_value(sym, upper_bound[sym], {})
                /\ done' = FALSE
                /\ mutated' = TRUE
                /\ Call(upper_bound[sym])
           ELSE /\ UNCHANGED <<engineVars, done, mutated>>
                /\ NoCall
    /\ cursor' = cursor + 1
    /\ UNCHANGED <<pc, algo, is_choice_item, passes, run, saved, fileVars,
                   runVars>>
    /\ UNCHANGED trialVars

\* for choice in conf.get_choices(): the test of the visibility
ForChoice ==
    /\ pc = "all_yes_for"
    /\ cursor = Len(non_choice_syms)
    /\ pc' = IF ~HasChoice THEN "if_done"
             ELSE IF visibility = TriY THEN "all_yes_select"
             ELSE IF visibility = TriM THEN "all_yes_items"
             ELSE "if_done"
    /\ cursor' = 0
    /\ NoCall
    /\ UNCHANGED <<engineVars, done, algo, is_choice_item, passes, mutated,
                   run, saved, fileVars, runVars>>
    /\ UNCHANGED trialVars

\* a choice that can be in "y" mode: its default selection is selected
AllYesSelect ==
    /\ pc = "all_yes_select"
    /\ LET selection == default_selection
       IN  IF selection # None /\ selection # user_selection
           THEN /\ set_value(selection, TriY, {})
                /\ done' = FALSE
                /\ mutated' = TRUE
                /\ Call(TriY)
           ELSE /\ UNCHANGED <<engineVars, done, mutated>>
                /\ NoCall
    /\ pc' = "if_done"
    /\ UNCHANGED <<cursor, algo, is_choice_item, passes, run, saved,
                   fileVars, runVars>>
    /\ UNCHANGED trialVars

\* the members choice.get_items() holds after position k
Rest(k) == {items[j] : j \in (k + 1)..Len(items)}

\* (mutant) the members are set to m whatever their upper bound
AllYesItemIgnoresBound ==
    /\ pc = "all_yes_items"
    /\ cursor < Len(items)
    /\ LET sym == items[cursor + 1]
       IN  IF value[sym] # TriM
           THEN /\ set_value(sym, TriM, Rest(cursor + 1))
                /\ done' = FALSE
                /\ mutated' = TRUE
                /\ Call(TriM)
           ELSE /\ UNCHANGED <<engineVars, done, mutated>>
                /\ NoCall
    /\ cursor' = cursor + 1
    /\ UNCHANGED <<pc, algo, is_choice_item, passes, run, saved, fileVars,
                   runVars>>
    /\ UNCHANGED trialVars

\* a choice that can only be in "m" mode: one iteration of for sym in
\* choice.get_items()
AllYesItem ==
    /\ pc = "all_yes_items"
    /\ cursor < Len(items)
    /\ LET sym == items[cursor + 1]
       IN  IF value[sym] # TriM /\ upper_bound[sym] # TriN
           THEN /\ set_value(sym, TriM, Rest(cursor + 1))
                /\ done' = FALSE
                /\ mutated' = TRUE
                /\ Call(TriM)
           ELSE /\ UNCHANGED <<engineVars, done, mutated>>
                /\ NoCall
    /\ cursor' = cursor + 1
    /\ UNCHANGED <<pc, algo, is_choice_item, passes, run, saved, fileVars,
                   runVars>>
    /\ UNCHANGED trialVars

\* the end of the loops of one pass
EndOfPass ==
    /\ \/ pc = "all_no_for" /\ cursor = NSyms
       \/ pc = "all_yes_items" /\ cursor = Len(items)
    /\ pc' = "if_done"
    /\ NoCall
    /\ UNCHANGED <<engineVars, cursor, done, algo, is_choice_item, passes,
                   mutated, run, saved, fileVars, runVars>>
    /\ UNCHANGED trialVars

\* (mutant) the break is not under if done
IfDoneBreaksAlways ==
    /\ pc = "if_done"
    /\ pc' = "write_config"
    /\ NoCall
    /\ UNCHANGED <<engineVars, cursor, done, algo, is_choice_item, passes,
                   mutated, run, saved, fileVars, runVars>>
    /\ UNCHANGED trialVars

\* if done: break
IfDone ==
    /\ pc = "if_done"
    /\ pc' = IF done THEN "write_config" ELSE algo
    /\ NoCall
    /\ UNCHANGED <<engineVars, cursor, done, algo, is_choice_item, passes,
                   mutated, run, saved, fileVars, runVars>>
    /\ UNCHANGED trialVars

\* conf.write_config("._config"); shell("make allnoconfig") or
\* shell("make allyesconfig") is the step ShellMake
WriteConfig ==
    /\ pc = "write_config"
    /\ \E snap \in MySnapshots : myConfig' = File(snap)
    /\ pc' = "shell"
    /\ NoCall
    /\ UNCHANGED <<engineVars, cursor, done, algo, is_choice_item, passes,
                   mutated, run, saved, dotConfig, verdict, skipped, runVars>>
    /\ steps' = Append(steps, "persist")
    /\ fresh' = fresh \cup {"._config"}
    /\ UNCHANGED raised

\* the same function is called again on the state the first call left
RunAgain ==
    /\ pc = "returned_test"
    /\ run = 1
    /\ run' = 2
    /\ saved' = value
    /\ passes' = 0 /\ mutated' = FALSE
    /\ done' = FALSE
    /\ cursor' = 0
    /\ pc' = algo
    /\ NoCall
    /\ UNCHANGED <<engineVars, algo, is_choice_item, fileVars, runVars>>
    /\ UNCHANGED trialVars

NextResolve ==
    \/ WhileTrue
    \/ AllNoVisit
    \/ AllYesVisit \/ ForChoice \/ AllYesSelect \/ AllYesItem
    \/ EndOfPass \/ IfDone \/ WriteConfig \/ ShellMake \/ RunAgain

SpecResolve == InitResolve /\ [][NextResolve]_vars

\* the loops as the interpreter runs them: a step that can be taken is taken
SpecResolveFair == SpecResolve /\ WF_vars(NextResolve)

(***************************************************************************)
(* Properties of the fixed-point loops.                                    *)
(***************************************************************************)
\* the function has returned: the loop has ended, its result is written and
\* the reference tool has been run
Written == pc = "returned_test"

\* C5 (as stated): for every engine that keeps the bounds and recomputes
\* them at each set_value, both loops terminate and the number of full
\* passes is bounded by the number of symbols.
C5_ConvergenceOriginal ==
    /\ <>Written
    /\ [](Written => passes <= NSyms)

\* C5 (amended): both loops end exactly at a full pass that called set_value
\* zero times, a pass that called set_value is followed by another pass,
\* and every state before the return has a next step.
C5_Convergence ==
    /\ Written => passes >= 1 /\ done /\ ~mutated
    /\ pc = "if_done" => (done <=> ~mutated)
    /\ pc \in {"write_config", "shell"} => done
    /\ ~(Written /\ run = 2) => ENABLED NextResolve

\* a loop has ended after more full passes than there are symbols
C5_Witness ==
    /\ Written /\ run = 1
    /\ passes > NSyms

\* a member of the choice holds y and has just been asked to take m: its
\* lower bound holds it at y, and the pass that asked is not the last
PinnedMember ==
    /\ pc = "all_yes_items" /\ called /\ requested = TriM
    /\ value[items[cursor]] = TriY
    /\ ~done

\* C6 (as stated): across the all-no loop no symbol's value ever increases,
\* the symbols the engine recomputes included; across the all-yes loop no
\* non-choice symbol's value ever decreases.
C6_MonotoneOriginal ==
    [][/\ algo = "all_no" => \A t \in Syms : value'[t] <= value[t]
       /\ algo = "all_yes" => \A t \in Syms \ Items : value'[t] >= value[t]
      ]_vars

\* C6 (amended): every set_value call of the all-no loop strictly lowers the
\* symbol it is applied to, and every set_value call of the all-yes loop on
\* a symbol outside choices strictly raises it; a step that calls set_value
\* on no symbol changes no value.
C6_StepsMonotone ==
    [][/\ (called' /\ pc = "all_no_for") =>
              value'[cursor'] < value[cursor']
       /\ (called' /\ pc = "all_yes_for") =>
              value'[non_choice_syms[cursor']] > value[non_choice_syms[cursor']]
       /\ ~called' => value' = value
      ]_vars

\* the second pass of an all-no loop has just called set_value, the engine
\* being free to move the other symbols either way
C6_Witness ==
    /\ called /\ algo = "all_no"
    /\ passes = 2

\* C7: the loop started on the state a completed run of the same loop left
\* performs exactly one pass, calls set_value zero times and leaves every
\* value unchanged.
C7_Idempotence ==
    run = 2 =>
        /\ passes <= 1 /\ ~mutated /\ ~called
        /\ value = saved
        /\ Written => passes = 1 /\ done
        /\ ~Written => ENABLED NextResolve

\* the second run of an all-yes loop has ended, on the state of a first run
\* that selected a member of the choice
C7_Witness ==
    /\ run = 2 /\ Written
    /\ algo = "all_yes" /\ user_selection # None


\* the step of the loop visits one symbol outside choices
AllNoStep == pc = "all_no_for" /\ cursor' = cursor + 1
AllYesStep == pc = "all_yes_for" /\ cursor' = cursor + 1
AllYesItemStep == pc = "all_yes_items" /\ cursor' = cursor + 1

\* C17 (as stated): the all-no loop calls set_value on a symbol exactly
\* when the symbol is outside choices, its lower bound is defined and the
\* lower bound is strictly greater than its value.
C17_AllNoStepOriginal ==
    [][AllNoStep =>
          (called' <=> /\ ~is_choice_item[cursor']
                       /\ lower_bound[cursor'] # None
                       /\ lower_bound[cursor'] > value[cursor'])
      ]_vars

\* C17 (amended): the all-no loop calls set_value on a symbol exactly when
\* the symbol is outside choices, its lower bound is defined and the lower
\* bound is strictly less than its value; the symbol then takes the lower
\* bound as its value.
C17_AllNoStep ==
    [][AllNoStep =>
          /\ called' <=> /\ ~is_choice_item[cursor']
                         /\ lower_bound[cursor'] # None
                         /\ lower_bound[cursor'] < value[cursor']
          /\ called' => value'[cursor'] = lower_bound[cursor']
      ]_vars

\* a symbol has just been lowered from y to its lower bound m, in a
\* configuration with a choice
C17_Witness ==
    /\ pc = "all_no_for" /\ called
    /\ Items # {}
    /\ value[cursor] = TriM

\* C18 (as stated): the all-yes loop calls set_value on a symbol outside
\* choices exactly when its upper bound is defined and strictly less than
\* its value.
C18_AllYesStepOriginal ==
    [][AllYesStep =>
          (called' <=> /\ upper_bound[non_choice_syms[cursor']] # None
                       /\ upper_bound[non_choice_syms[cursor']]
                              < value[non_choice_syms[cursor']])
      ]_vars

\* C18 (amended): the all-yes loop calls set_value on a symbol outside
\* choices exactly when its upper bound is defined and strictly greater
\* than its value; the symbol then takes the upper bound as its value.
C18_AllYesStep ==
    [][AllYesStep =>
          /\ called' <=> /\ upper_bound[non_choice_syms[cursor']] # None
                         /\ upper_bound[non_choice_syms[cursor']]
                                > value[non_choice_syms[cursor']]
          /\ called' => value'[non_choice_syms[cursor']]
                            = upper_bound[non_choice_syms[cursor']]
      ]_vars

\* a symbol outside the choice has just been raised from n to its upper
\* bound m
C18_Witness ==
    /\ pc = "all_yes_for" /\ called
    /\ Items # {}
    /\ value[non_choice_syms[cursor]] = TriM

\* C19 (as stated): a choice visible at y has its default selection set to
\* y exactly when the default exists and is not the user selection; a
\* choice visible at m has each member set to m exactly when the member's
\* value is not m and its upper bound is not n; a choice visible at n is not
\* touched; and the two kinds of step never follow each other in one pass.
C19_Original ==
    [][/\ pc = "all_yes_select" =>
             /\ visibility = TriY
             /\ called' <=> /\ default_selection # None
                            /\ default_selection # user_selection
             /\ called' => user_selection' = default_selection
       /\ AllYesItemStep =>
             /\ visibility = TriM
             /\ called' <=> /\ value[items[cursor']] # TriM
                            /\ upper_bound[items[cursor']] # TriN
             /\ called' => value'[items[cursor']] = TriM
       /\ (algo = "all_yes" /\ called' /\ visibility = TriN) =>
             pc = "all_yes_for"
       /\ pc' = "all_yes_select" => pc = "all_yes_for"
       /\ pc' = "all_yes_items" => pc \in {"all_yes_for", "all_yes_items"}
      ]_vars

\* C19 (amended): each pass reads the visibility when it reaches the choice
\* and not again once a member has been set.  Read as y, set_value(y) is
\* called on the default selection exactly when the default exists and is
\* not the user selection, and the default becomes the user selection.  Read as m, set_value(m) is called on
\* each member in turn exactly when the member's value is not m and its
\* upper bound is not n, and the member takes m, or keeps y when it held y.
\* Read as n, no member is set in the pass.  The two kinds of step never
\* follow each other in one pass.
C19_ChoicePromotion ==
    [][/\ (pc = "all_yes_for" /\ pc' # pc) =>
             pc' = IF HasChoice /\ visibility = TriY THEN "all_yes_select"
                   ELSE IF HasChoice /\ visibility = TriM THEN "all_yes_items"
                   ELSE "if_done"
       /\ pc = "all_yes_select" =>
             /\ visibility = TriY
             /\ called' <=> /\ default_selection # None
                            /\ default_selection # user_selection
             /\ called' => /\ requested' = TriY
                           /\ user_selection' = default_selection
                           /\ value'[default_selection]
                                  >= value[default_selection]
             /\ pc' = "if_done"
       /\ AllYesItemStep =>
             /\ cursor = 0 => visibility = TriM
             /\ called' <=> /\ value[items[cursor']] # TriM
                            /\ upper_bound[items[cursor']] # TriN
             /\ called' => /\ requested' = TriM
                           /\ \/ value'[items[cursor']] = TriM
                              \/ /\ value[items[cursor']] = TriY
                                 /\ value'[items[cursor']] = TriY
       /\ (algo = "all_yes" /\ called') =>
             pc \in {"all_yes_for", "all_yes_select", "all_yes_items"}
       /\ (called' /\ pc = "all_yes_for") =>
             ~is_choice_item[non_choice_syms[cursor']]
       /\ pc' = "all_yes_select" => pc = "all_yes_for"
       /\ pc' = "all_yes_items" => pc \in {"all_yes_for", "all_yes_items"}
       /\ pc = "all_yes_items" => pc' \in {"all_yes_items", "if_done"}
      ]_vars

\* the second member of a choice read as visible at m has just been asked
\* to take m, the first holds m as well and the engine has since made the
\* choice invisible
C19_Witness ==
    /\ pc = "all_yes_items" /\ called /\ requested = TriM
    /\ Cardinality(Items) >= 2 /\ cursor = 2
    /\ \A t \in Items : value[t] = TriM
    /\ visibility = TriN

\* C20: when write_config is called no step of the loop is left to take:
\* the pass before it called set_value zero times, and every guard of the
\* loop is false.
C20_FixedPoint ==
    pc \in {"write_config", "shell", "returned_test"} =>
        /\ done /\ ~mutated
        /\ algo = "all_no" =>
              \A t \in Syms \ Items :
                  lower_bound[t] = None \/ lower_bound[t] >= value[t]
        /\ algo = "all_yes" =>
              /\ \A t \in Syms \ Items :
                    upper_bound[t] = None \/ value[t] >= upper_bound[t]
              /\ (HasChoice /\ visibility = TriY) =>
                    \/ default_selection = None
                    \/ default_selection = user_selection
              /\ (HasChoice /\ visibility = TriM) =>
                    \A t \in Items : value[t] = TriM \/ upper_bound[t] = TriN

\* write_config is called after a third pass in a configuration whose
\* choice is visible at m and has a member that cannot leave n
C20_Witness ==
    /\ pc = "write_config" /\ algo = "all_yes"
    /\ passes = 3
    /\ visibility = TriM
    /\ \E t \in Items : value[t] = TriN /\ upper_bound[t] = TriN

(***************************************************************************)
(* Properties of the orchestrator.                                         *)
(***************************************************************************)
Range(seq) == {seq[k] : k \in DOMAIN seq}
Count(seq, x) == Cardinality({k \in DOMAIN seq : seq[k] = x})

\* the snapshots that exist below "arch", whatever the arch they belong to
SnapshotPaths ==
    {"arch/" \o tree[k].name \o "/defconfig" :
        k \in {j \in DOMAIN tree : tree[j].defconfig}}
    \cup UNION {{"arch/" \o tree[k].name \o "/configs/" \o tree[k].files[f] :
                    f \in 1..Len(tree[k].files)} :
                k \in {j \in DOMAIN tree : tree[j].configs = "dir"}}

Confs == 1..Len(arch_configs)

\* every trial of every scenario: one per test and Config instance, and for
\* the replay test one more per Config instance and snapshot
EnumeratedTrials ==
    {Trial(t, c, NoDefconfig) : t \in DOMAIN all_arch_tests, c \in Confs}
    \cup {Trial(Len(all_arch_tests), c, d) : c \in Confs, d \in SnapshotPaths}

Finished == pc \in {"summary", "done"}

AllTrialsRecorded ==
    \A tr \in EnumeratedTrials : tr \in Range(attempted) /\ tr \in Range(recorded)

\* C1: the run reaches the summary step only after every enumerated trial of
\* every scenario has been attempted and recorded, whatever the outcomes of
\* the comparisons; and the step that records a mismatch goes on with the
\* loop it is in, it never leaves it.
C1_FailSoft ==
    /\ [](Finished => AllTrialsRecorded)
    /\ [][(pc = "record" /\ ~verdict => pc' = "for_conf")
          /\ (pc = "def_record" /\ ~verdict => pc' = "for_defconfig")]_vars

C1_Witness ==
    /\ pc = "done"
    /\ Len(arch_configs) >= 2 /\ Len(defconfigs) >= 2
    /\ fail_log.n = 1
    /\ fail_log.last = <<arch_configs[1].arch, defconfigs[1]>>
    /\ Len(recorded) = Cardinality(EnumeratedTrials)

\* C2: at the end of the run every pair of an enumerated architecture and a
\* snapshot (of any architecture) has been run exactly once and recorded
\* exactly once, no other replay trial has been run, and nconfigs is the
\* number of architectures times the number of snapshots.
C2_CrossProduct ==
    Finished =>
        /\ \A c \in Confs, d \in SnapshotPaths :
              /\ Count(attempted, Trial(Len(all_arch_tests), c, d)) = 1
              /\ Count(recorded, Trial(Len(all_arch_tests), c, d)) = 1
        /\ \A k \in DOMAIN recorded :
              recorded[k][3] # NoDefconfig =>
                  recorded[k][2] \in Confs /\ recorded[k][3] \in SnapshotPaths
        /\ nconfigs = Len(arch_configs) * Cardinality(SnapshotPaths)

C2_Witness ==
    /\ pc = "done"
    /\ Len(arch_configs) = 2
    /\ "arch/h8300/defconfig" \in SnapshotPaths
    /\ Cardinality(SnapshotPaths) = 2
    /\ nconfigs = 4

\* C3: a failure recorded by fail() stays in the ledger; the verdict is
\* printed only after every enumerated trial has been attempted; and the
\* verdict printed is 'Some tests failed' exactly when fail() has been
\* called during the run, 'All OK' otherwise.
C3_Verdict ==
    /\ everFailed => ~all_ok
    /\ report.verdict # "" => pc = "done" /\ AllTrialsRecorded
    /\ pc = "done" =>
          /\ report.verdict = "Some tests failed" <=> everFailed
          /\ report.verdict = "All OK" <=> ~everFailed

C3_Witness ==
    /\ pc = "done"
    /\ everFailed
    /\ verdict
    /\ fail_log.n = 0
    /\ Len(recorded) > 5
    /\ report.verdict = "Some tests failed"

\* C4 as stated: at the end of every full run the verdict and the count of
\* trials have both been printed.
C4_ReportOriginal ==
    pc = "done" =>
        /\ report.verdict \in {"All OK", "Some tests failed"}
        /\ report.count_printed

\* C4 as amended: at the end of every full run the verdict has been printed;
\* the count of trials has been printed, and is nconfigs, exactly when the
\* verdict is 'All OK'; after 'Some tests failed' no count is printed.
C4_ReportCountOnlyIfOk ==
    pc = "done" =>
        /\ report.verdict \in {"All OK", "Some tests failed"}
        /\ report.count_printed <=> report.verdict = "All OK"
        /\ report.count_printed => report.count = nconfigs

C4_Witness ==
    /\ pc = "done"
    /\ report.verdict = "Some tests failed"
    /\ ~report.count_printed
    /\ nconfigs > 0

\* the steps of one trial of the comparing tests, and of one replay trial
TrialSteps ==
    <<"clear", "configure", "persist", "invoke", "compare", "record">>
ReplaySteps ==
    <<"clear", "persist", "copy", "invoke", "compare", "record">>

IsPrefix(a, b) == Len(a) <= Len(b) /\ SubSeq(b, 1, Len(a)) = a
NotCopy(step) == step # "copy"

\* the trial in progress has been recorded
TrialRecorded == steps # <<>> /\ steps[Len(steps)] = "record"

\* the trial in progress is a replay trial of test_defconfig()
InReplay == testIdx = Len(all_arch_tests)

\* C11 (as stated): every trial, each replay trial included, executes clear,
\* configure environment, resolve and persist, invoke the reference tool,
\* compare, record, in that order.
C11_OrderOriginal ==
    TrialRecorded => SelectSeq(steps, NotCopy) = TrialSteps

\* C11 (amended): a trial of the three comparing tests executes clear,
\* configure, persist, invoke, compare, record in that order; a replay trial
\* executes clear, persist, copy, invoke, compare, record and has no
\* configure step of its own (the environment was configured before its
\* clear); and the two files a comparison has read were both written since
\* the rm_configs() of the same trial.
C11_TrialOrder ==
    /\ IsPrefix(steps, TrialSteps) \/ IsPrefix(steps, ReplaySteps)
    /\ TrialRecorded =>
          steps = IF InReplay THEN ReplaySteps ELSE TrialSteps
    /\ pc \in {"record", "def_record"} => fresh = {".config", "._config"}

\* the second replay trial has compared its two files
C11_Witness ==
    /\ pc = "def_record" /\ defIdx = 2
    /\ steps = SubSeq(ReplaySteps, 1, 5)
    /\ fresh = {".config", "._config"}

\* C12: a trial in which the reference tool has written no snapshot since
\* the cleanup is compared like any other: the comparison returns a
\* mismatch, which is then recorded, and the run goes on.
C12_ToolFailureRecorded ==
    [][(pc = "compare" /\ ".config" \notin fresh) =>
           (pc' = "record" /\ ~verdict')]_vars

\* the replay trials that have been recorded
RecordedReplays ==
    {k \in DOMAIN recorded : recorded[k][3] # NoDefconfig}

\* C13: a replay trial whose comparison reports a mismatch appends one
\* record naming its architecture and its snapshot to the failure log and
\* marks the ledger failed; a passing replay trial and every other step
\* leave the log as it is; so the log never has more records than replay
\* trials were recorded, and none unless the ledger is marked failed.
C13_FailureLog ==
    /\ [](fail_log.n <= Cardinality(RecordedReplays))
    /\ [](fail_log.n > 0 => ~all_ok)
    /\ [][/\ (pc = "def_record" /\ ~verdict) =>
                /\ fail_log'.n = fail_log.n + 1
                /\ fail_log'.last =
                       <<arch_configs[confIdx].arch, defconfigs[defIdx]>>
                /\ ~_all_ok'
                /\ pc' = "for_defconfig"
          /\ (pc = "def_record" /\ verdict) => fail_log' = fail_log
          /\ pc # "def_record" => fail_log' = fail_log
         ]_vars

\* two replay trials have failed and one has passed
C13_Witness ==
    /\ pc = "for_defconfig"
    /\ fail_log.n = 2
    /\ Cardinality(RecordedReplays) = 3

\* the test functions
TestFns == {all_arch_tests[k].fn : k \in DOMAIN all_arch_tests}

\* C14 (as stated): every scenario run for every architecture is followed
\* by a comparison of the two snapshots and a recorded result before the
\* next trial begins.
C14_EveryScenarioCompared ==
    (pc = "for_conf" /\ confIdx > 0) =>
        /\ TrialRecorded
        /\ \E k \in DOMAIN steps : steps[k] = "compare"

\* C14 (amended): every run of a test function on an architecture starts on
\* a reset Config instance; the next trial begins after Compare and Record
\* for the three comparing tests, with no comparison for test_call_all, and
\* after the replay trials (each with its own Compare and Record, and no
\* reset between them) for test_defconfig; the summary comes after the last
\* test.
C14_StateMachine ==
    /\ pc \in TestFns => confState[confIdx] = "fresh"
    /\ (pc = "for_conf" /\ confIdx > 0) =>
          CASE compare_configs -> steps = TrialSteps
            [] test_fn = "test_call_all" -> steps = <<"clear", "configure">>
            [] OTHER -> \/ steps = ReplaySteps
                        \/ steps = <<"clear", "configure">> /\ defconfigs = <<>>
    /\ (pc = "def_load" /\ defIdx > 1) => confState[confIdx] = "used"
    /\ pc \in {"summary", "done"} => testIdx = Len(all_arch_tests)

\* the replay trials of the first architecture are over, the second
\* architecture is about to start
C14_Witness ==
    /\ pc = "rm_configs" /\ InReplay /\ confIdx = 2
    /\ steps = ReplaySteps
    /\ confState = <<"used", "fresh">>

\* C15: in test_call_all() the ledger is marked failed exactly when
\* conf.eval("y && && y") raises nothing; a Kconfig_Syntax_Error is caught
\* and leaves the ledger as it is; the test goes on in both cases; any
\* other exception is not caught.
C15_SyntaxErrorCheck ==
    [][pc = "test_call_all" =>
          /\ raised' = "none" =>
                pc' = "call_all_checks" /\ ~_all_ok' /\ everFailed'
          /\ raised' = "Kconfig_Syntax_Error" =>
                /\ pc' = "call_all_checks"
                /\ _all_ok' = _all_ok /\ everFailed' = everFailed
          /\ raised' = "other" => pc' = "crashed"
          /\ pc' = "call_all_checks" =>
                raised' \in {"none", "Kconfig_Syntax_Error"}
      ]_vars

\* the malformed expression of the second architecture raised nothing, and
\* this is the first failure of the run
C15_Witness ==
    /\ pc = "call_all_checks" /\ confIdx = 2
    /\ raised = "none"
    /\ ~all_ok /\ fail_log.n = 0

\* C16: whenever the reference tool is invoked, ARCH is the architecture of
\* the Config instance under test, KERNELVERSION is set and
\* KCONFIG_ALLCONFIG is not.
C16_EnvAtInvocation ==
    pc \in {"shell", "def_make"} =>
        /\ environ["ARCH"] = arch_configs[confIdx].arch
        /\ environ["KERNELVERSION"] = "2"
        /\ environ["KCONFIG_ALLCONFIG"] = Unset

\* the reference tool is invoked for sh64, whose SRCARCH is sh, in a tree
\* whose last architecture is another one
C16_Witness ==
    /\ pc = "def_make"
    /\ environ["ARCH"] = "sh64"
    /\ arch_configs[Len(arch_configs)].arch # "sh64"

(***************************************************************************)
(* The comparator on its own: equal_confs() called on any two files.       *)
(***************************************************************************)
InitCompare ==
    /\ pc = "equal_confs"
    /\ dotConfig \in {File(s) : s \in Snapshots} \cup {NoFile}
    /\ myConfig \in {File(s) : s \in Snapshots} \cup {NoFile}
    /\ verdict = FALSE
    /\ skipped = 0
    /\ RunIdle
    /\ ResolveIdle

NextCompare == EqualConfsReturn \/ EqualConfsRaise

SpecCompare == InitCompare /\ [][NextCompare]_vars

(***************************************************************************)
(* Properties of the comparator.                                           *)
(***************************************************************************)
\* an ordinary comment: a '#' line that is not an unset marker
IsOrdinaryComment(line) == startswith(line, "#") /\ ~unset_re(line)

HasHeader(ls) == ls # <<>> /\ IsOrdinaryComment(Head(ls))

\* a snapshot without its leading block of ordinary comments
RECURSIVE Body(_)
Body(ls) == IF HasHeader(ls) THEN Body(Tail(ls)) ELSE ls

\* the two snapshots differ by a header and nothing else
HeaderOnlyDifference(a, b) ==
    \/ HasHeader(a) /\ Body(a) = b
    \/ HasHeader(b) /\ Body(b) = a

ExampleReference == Header(3) \o <<UnsetLine, AssignLine>>
ExampleCandidate == <<UnsetLine, AssignLine>>

\* C8 as stated: the verdict with ".config" as the reference equals the
\* verdict with the two snapshots exchanged.
C8_SymmetryOriginal ==
    pc = "returned" =>
        verdict = equal_confs(myConfig.lines, dotConfig.lines)

\* C8 as amended: exchanging the two snapshots changes the verdict exactly
\* when one of them has a header of ordinary comments and the other is its
\* body; for every other pair, header-less pairs among them, the verdict is
\* the same both ways.
C8_SymmetryUpToHeader ==
    pc = "returned" =>
        ((verdict = equal_confs(myConfig.lines, dotConfig.lines))
            <=> ~HeaderOnlyDifference(dotConfig.lines, myConfig.lines))

C8_Witness ==
    /\ pc = "returned"
    /\ ~HasHeader(dotConfig.lines) /\ ~HasHeader(myConfig.lines)
    /\ Len(dotConfig.lines) = 2
    /\ verdict
    /\ equal_confs(myConfig.lines, dotConfig.lines)

\* C9: equal_confs() skips exactly the longest leading run of ordinary
\* comments of the reference (it stops at the first line that is no comment
\* or is an unset marker, and skips nothing after it) and returns true iff
\* the reference lines that remain are the candidate's lines, in order; the
\* reference with a 3-line header before the unset marker of FOO and BAR=y
\* equals the candidate made of the unset marker of FOO and BAR=y.
C9_HeaderSkip ==
    pc = "returned" =>
        LET l1 == dotConfig.lines
            l2 == myConfig.lines
        IN  /\ skipped \in 0..Len(l1)
            /\ \A k \in 1..skipped : IsOrdinaryComment(l1[k])
            /\ skipped < Len(l1) => ~IsOrdinaryComment(l1[skipped + 1])
            /\ verdict <=>
                 /\ Len(l2) = Len(l1) - skipped
                 /\ \A k \in 1..Len(l2) : l2[k] = l1[skipped + k]
            /\ (l1 = ExampleReference /\ l2 = ExampleCandidate) => verdict

C9_Witness ==
    /\ pc = "returned"
    /\ dotConfig.lines = ExampleReference
    /\ myConfig.lines = ExampleCandidate
    /\ skipped = 3
    /\ verdict

\* C10 as stated: the verdict is true iff the bodies of the two snapshots,
\* each without its own header, are identical.
C10_BodiesOriginal ==
    pc = "returned" =>
        (verdict <=> Body(dotConfig.lines) = Body(myConfig.lines))

\* C10 as amended: the verdict is true iff the body of the reference
\* (".config" without its header) is identical to the whole candidate
\* ("._config", whose leading comments are not stripped); a candidate that
\* begins with an ordinary comment never compares equal.
C10_ReferenceBodyOnly ==
    pc = "returned" =>
        /\ verdict <=> Body(dotConfig.lines) = myConfig.lines
        /\ HasHeader(myConfig.lines) => ~verdict

C10_Witness ==
    /\ pc = "returned"
    /\ HasHeader(dotConfig.lines)
    /\ myConfig.lines # <<>>
    /\ Body(dotConfig.lines) = myConfig.lines
    /\ verdict

=============================================================================
